---- MODULE Spec2Model ----
(***************************************************************************)
(* zai_conversation: the streaming decoder (_transform_stream), the        *)
(* message encoder (_convert_content) and the tool loop                    *)
(* (ZaiConversationEntity._async_handle_chat_log) of conversation.py.      *)
(*                                                                         *)
(* The chat log, the provider stream and the tool executor are the         *)
(* environment: the provider chooses the events of each stream, may fail   *)
(* a stream or a request, the caller may cancel at an await, and the tool  *)
(* executor answers tool calls that were added to the chat log.            *)
(***************************************************************************)
EXTENDS Integers, Sequences, FiniteSets, TLC

\* ------------------------------------------------------------------ bounds
\* Longest provider stream (number of events) of one iteration of the loop.
MaxStreamLen == 3
\* Longest provider stream of a single decode run (DecodeSpec).
MaxDecodeLen == 5

\* ------------------------------------------------------- program constants
max_iterations == 10
\* The longest chat log handed to _convert_content, and the most attachments,
\* tool calls or tool results of one content.
MaxDialogueLen == 2
MaxParts == 2

\* Python's None for the optional locals of _transform_stream.
None == "None"

\* --------------------------------------------------------- provider inputs
\* JSON is modelled on the token alphabet  [  ]  1 ; a partial_json fragment
\* is one token.  Text fragments are one-letter strings.
JsonTokens == {"[", "]", "1"}
TextFragments == {"a", "b"}
\* Provider-assigned tool-use ids with the tool each one names (ids and names
\* are non-empty strings).
ToolBlocks == {<<"t1", "get_time">>, <<"t2", "turn_on">>}

\* The events a provider can send in one decode run.
DecodeStarts == {3}
DecodeBlocks == {[type |-> "text", id |-> None, name |-> None]} \cup
                {[type |-> "tool_use", id |-> b[1], name |-> b[2]] : b \in ToolBlocks}
DecodeDeltas == {[type |-> "text_delta", text |-> t, partial_json |-> <<>>] : t \in TextFragments} \cup
                {[type |-> "input_json_delta", text |-> "", partial_json |-> <<j>>] : j \in JsonTokens}
DecodeUsages == {7}

\* The events of the streams of the tool loop: a narrower alphabet, so that
\* all max_iterations iterations can be explored.
LoopStarts == {3}
LoopBlocks == {[type |-> "text", id |-> None, name |-> None],
               [type |-> "tool_use", id |-> "t1", name |-> "get_time"]}
LoopDeltas == {[type |-> "text_delta", text |-> "a", partial_json |-> <<>>],
               [type |-> "input_json_delta", text |-> "", partial_json |-> <<"1">>],
               [type |-> "input_json_delta", text |-> "", partial_json |-> <<"[">>]}
LoopUsages == {7}

VARIABLES
    pc,              \* where _async_handle_chat_log stands
    iteration,       \* the loop variable of the tool loop
    requests,        \* provider requests made (client.messages.create calls)
    status,          \* outcome of the run: "Running"; "Completed" (returned without
                     \* the warning of line 374); "IterationCapReached" (returned
                     \* after logging it); "Error" (HomeAssistantError raised);
                     \* "Cancelled"
    raised,          \* exceptions raised to the caller
    failure,         \* the exception that left _async_handle_chat_log (None: none)
    open_streams,    \* provider streams opened by the run and not released
    content,         \* chat_log.content
    turn_start,      \* chat_log.content as it stood when the current stream was opened
    messages,        \* model_args["messages"]
    content_type, content_text, tool_call_id, tool_call_name, tool_call_args,
    input_tokens, output_tokens,     \* locals of _transform_stream
    events,          \* events received from the current stream
    chunks,          \* chunks handed to chat_log.async_stream_chunk (current stream)
    decode_errors,   \* _LOGGER.error calls of the current decode run
    trace,           \* chat_log.async_add_trace_event calls of the current decode run
    data,            \* AssistantMemory._data
    loaded,          \* AssistantMemory._loaded
    storage,         \* the file at AssistantMemory._storage_path
    tasks,           \* the calls of AssistantMemory methods in progress
    calls            \* calls of AssistantMemory methods made since __init__ or
                     \* since the last async_clear

memory == <<data, loaded, storage, tasks, calls>>

decoder == <<content_type, content_text, tool_call_id, tool_call_name,
             tool_call_args, input_tokens, output_tokens>>
loop == <<pc, iteration, requests, status, raised, failure, memory, open_streams, messages,
          turn_start>>
vars == <<pc, iteration, requests, status, raised, failure, memory, open_streams, content,
          turn_start, messages,
          content_type, content_text, tool_call_id, tool_call_name,
          tool_call_args, input_tokens, output_tokens,
          events, chunks, decode_errors, trace>>

\* ------------------------------------------------------- AssistantMemory
\* The most calls of AssistantMemory methods in one behaviour.
MaxCalls == 3

\* The most record_interaction calls between two async_clear calls.
MaxInteractions == 23
\* The size the frequent_commands table is cut back to (lines 224, 226).
MaxFrequent == 20

\* _data as __init__ leaves it (preferences, notes and stats; an entry is
\* modelled by its text, a sequence of characters; frequent_commands is the
\* dict as the sequence of its items in insertion order).
DefaultData ==
    [preferences |-> <<>>, notes |-> <<>>,
     stats |-> [total_interactions |-> 0, frequent_commands |-> <<>>]]

\* Two callers share the AssistantMemory instance of a config entry.
Tasks == {"t1", "t2"}
NoCall == [op |-> "none", text |-> <<>>]
\* A caller with no call in progress.
IdleTask == [pc |-> "idle", call |-> NoCall, read |-> FALSE, result |-> DefaultData]

\* The instance after __init__, before any call.
MemoryIdle ==
    /\ data = DefaultData
    /\ loaded = FALSE
    /\ storage = [exists |-> FALSE, data |-> DefaultData]
    /\ tasks = [t \in Tasks |-> IdleTask]
    /\ calls = 0

\* ------------------------------------------------------------- json.loads
\* value ::= 1 | [ ] | [ value ]
RECURSIVE json_valid(_)
json_valid(s) ==
    \/ s = <<"1">>
    \/ /\ Len(s) >= 2
       /\ s[1] = "["
       /\ s[Len(s)] = "]"
       /\ (Len(s) = 2 \/ json_valid(SubSeq(s, 2, Len(s) - 1)))

\* The parsed value: a number, or a list of parsed values.
RECURSIVE json_loads(_)
json_loads(s) ==
    IF s = <<"1">>
    THEN [kind |-> "int", items |-> <<>>]
    ELSE [kind |-> "list",
          items |-> IF Len(s) = 2 THEN <<>>
                    ELSE <<json_loads(SubSeq(s, 2, Len(s) - 1))>>]

\* --------------------------------------------------------------- chat log
UserContent(text, attachments) ==
    [role |-> "user", content |-> text, attachments |-> attachments,
     tool_calls |-> <<>>, tool_results |-> <<>>]
AssistantContent(text, tool_calls) ==
    [role |-> "assistant", content |-> text, attachments |-> <<>>,
     tool_calls |-> tool_calls, tool_results |-> <<>>]
ToolResultContent(tool_results) ==
    [role |-> "tool_result", content |-> None, attachments |-> <<>>,
     tool_calls |-> <<>>, tool_results |-> tool_results]
ToolCall(id, name, args) == [id |-> id, name |-> name, args |-> args]
ToolResult(call_id, result, error) ==
    [call_id |-> call_id, result |-> result, error |-> error]

\* Python truthiness of an optional string.
Truthy(s) == s # None /\ s # ""

\* A variant that looks for any content after the user's input.
unresponded_tool_results_any(c) ==
    Len(c) > 0 /\ c[Len(c)].role # "user"

\* chat_log.unresponded_tool_results: the log ends with tool results.
unresponded_tool_results(c) ==
    Len(c) > 0 /\ c[Len(c)].role = "tool_result"

\* The tool calls of the log that no later tool result answers: those of
\* the assistant contents after the last tool-result content.
RECURSIVE PendingCalls(_)
PendingCalls(c) ==
    IF c = <<>> \/ c[Len(c)].role = "tool_result" THEN <<>>
    ELSE PendingCalls(SubSeq(c, 1, Len(c) - 1)) \o c[Len(c)].tool_calls

\* --------------------------------------------------------- _convert_content
\* An attachment's content_type is <<major, minor>>: "image/png" is
\* <<"image", "png">>, so startswith("image/") tests the first component.
\* A variant that sends every attachment that is not an image as a document.
AttachmentPart_any_document(attachment) ==
    IF attachment.content_type[1] = "image"
    THEN <<[type |-> "image",
            source |-> [type |-> "base64",
                        media_type |-> attachment.content_type,
                        data |-> attachment.data]]>>
    ELSE <<[type |-> "document",
            source |-> [type |-> "base64",
                        media_type |-> attachment.content_type,
                        data |-> attachment.data]]>>

AttachmentPart(attachment) ==
    IF attachment.content_type[1] = "image"
    THEN <<[type |-> "image",
            source |-> [type |-> "base64",
                        media_type |-> attachment.content_type,
                        data |-> attachment.data]]>>
    ELSE IF attachment.content_type = <<"application", "pdf">>
    THEN <<[type |-> "document",
            source |-> [type |-> "base64",
                        media_type |-> <<"application", "pdf">>,
                        data |-> attachment.data]]>>
    ELSE <<>>

RECURSIVE AttachmentParts(_)
AttachmentParts(attachments) ==
    IF attachments = <<>> THEN <<>>
    ELSE AttachmentParts(SubSeq(attachments, 1, Len(attachments) - 1))
         \o AttachmentPart(attachments[Len(attachments)])

TextPart(text) ==
    IF Truthy(text) THEN <<[type |-> "text", text |-> text]>> ELSE <<>>

\* A variant that lists the tool uses last call first.
ToolUseParts_reversed(tool_calls) ==
    [i \in 1..Len(tool_calls) |->
        [type |-> "tool_use", id |-> tool_calls[Len(tool_calls) + 1 - i].id,
         name |-> tool_calls[Len(tool_calls) + 1 - i].name,
         input |-> tool_calls[Len(tool_calls) + 1 - i].args]]

ToolUseParts(tool_calls) ==
    [i \in 1..Len(tool_calls) |->
        [type |-> "tool_use", id |-> tool_calls[i].id,
         name |-> tool_calls[i].name, input |-> tool_calls[i].args]]

ToolResultMessages(tool_results) ==
    [i \in 1..Len(tool_results) |->
        [role |-> "user",
         content |-> <<[type |-> "tool_result",
                        tool_use_id |-> tool_results[i].call_id,
                        content |-> IF Truthy(tool_results[i].result)
                                    THEN tool_results[i].result ELSE "",
                        is_error |-> tool_results[i].error]>>]]

\* A variant that sends no message for a user content without parts.
convert_one_skip_empty(c) ==
    IF c.role = "user"
    THEN IF TextPart(c.content) \o AttachmentParts(c.attachments) = <<>>
         THEN <<>>
         ELSE <<[role |-> "user",
                 content |-> TextPart(c.content) \o AttachmentParts(c.attachments)]>>
    ELSE IF c.role = "assistant"
    THEN <<[role |-> "assistant",
            content |-> TextPart(c.content) \o ToolUseParts(c.tool_calls)]>>
    ELSE IF c.role = "tool_result"
    THEN ToolResultMessages(c.tool_results)
    ELSE <<>>

convert_one(c) ==
    IF c.role = "user"
    THEN <<[role |-> "user",
            content |-> TextPart(c.content) \o AttachmentParts(c.attachments)]>>
    ELSE IF c.role = "assistant"
    THEN <<[role |-> "assistant",
            content |-> TextPart(c.content) \o ToolUseParts(c.tool_calls)]>>
    ELSE IF c.role = "tool_result"
    THEN ToolResultMessages(c.tool_results)
    ELSE <<>>

RECURSIVE convert_content(_)
convert_content(chat_content) ==
    IF chat_content = <<>> THEN <<>>
    ELSE convert_content(SubSeq(chat_content, 1, Len(chat_content) - 1))
         \o convert_one(chat_content[Len(chat_content)])

\* --------------------------------------------------------------- the run
\* The chat log handed to _async_handle_chat_log ends with the user's input.
InitialContent == <<UserContent("a", <<>>)>>

\* A variant whose buffers live outside the generator: a new run starts with
\* what the run before it left in them.
StartStream_keep_buffers ==
    /\ input_tokens' = 0
    /\ output_tokens' = 0
    /\ events' = <<>>
    /\ chunks' = <<>>
    /\ decode_errors' = <<>>
    /\ trace' = <<>>
    /\ UNCHANGED <<content_type, content_text, tool_call_id, tool_call_name,
                   tool_call_args>>

\* Entering _transform_stream on a freshly opened stream (lines 172-179).
StartStream ==
    /\ content_type' = None
    /\ content_text' = ""
    /\ tool_call_id' = None
    /\ tool_call_name' = None
    /\ tool_call_args' = <<>>
    /\ input_tokens' = 0
    /\ output_tokens' = 0
    /\ events' = <<>>
    /\ chunks' = <<>>
    /\ decode_errors' = <<>>
    /\ trace' = <<>>

Init ==
    /\ pc = "request"
    /\ iteration = 0
    /\ requests = 0
    /\ status = "Running"
    /\ raised = 0
    /\ failure = None
    /\ MemoryIdle
    /\ open_streams = 0
    /\ content = InitialContent
    /\ turn_start = InitialContent
    /\ messages = convert_content(InitialContent)
    /\ content_type = None
    /\ content_text = ""
    /\ tool_call_id = None
    /\ tool_call_name = None
    /\ tool_call_args = <<>>
    /\ input_tokens = 0
    /\ output_tokens = 0
    /\ events = <<>>
    /\ chunks = <<>>
    /\ decode_errors = <<>>
    /\ trace = <<>>

\* stream = await client.messages.create(**model_args)
Request ==
    /\ pc = "request"
    /\ requests' = requests + 1
    /\ pc' = "stream"
    /\ open_streams' = open_streams + 1
    /\ turn_start' = content
    /\ StartStream
    /\ UNCHANGED <<iteration, status, raised, failure, memory, content, messages>>

\* ------------------------------------------------- _transform_stream events
AssistantStreamChunk(text) == [chunk |-> "text", text |-> text]
AssistantToolCallChunk(id, name, args) ==
    [chunk |-> "tool_call", id |-> id, name |-> name, args |-> args]

RawMessageStartEvent(tokens) ==
    /\ pc = "stream"
    /\ input_tokens' = tokens
    /\ events' = Append(events, [event |-> "message_start", usage |-> tokens])
    /\ UNCHANGED <<loop, content, content_type, content_text, tool_call_id,
                   tool_call_name, tool_call_args, output_tokens,
                   chunks, decode_errors, trace>>

RawContentBlockStartEvent(content_block) ==
    /\ pc = "stream"
    /\ IF content_block.type = "text"
       THEN /\ content_type' = "text"
            /\ UNCHANGED <<tool_call_id, tool_call_name>>
       ELSE IF content_block.type = "tool_use"
       THEN /\ content_type' = "tool_use"
            /\ tool_call_id' = content_block.id
            /\ tool_call_name' = content_block.name
       ELSE UNCHANGED <<content_type, tool_call_id, tool_call_name>>
    /\ events' = Append(events, [event |-> "content_block_start",
                                 content_block |-> content_block])
    /\ UNCHANGED <<loop, content, content_text, tool_call_args, input_tokens,
                   output_tokens, chunks, decode_errors, trace>>

\* A variant that puts each fragment in front of the buffer.
RawContentBlockDeltaEvent_prepend(delta) ==
    /\ pc = "stream"
    /\ IF content_type = "text" /\ delta.type = "text_delta"
       THEN /\ content_text' = delta.text \o content_text
            /\ chunks' = Append(chunks, AssistantStreamChunk(delta.text))
            /\ UNCHANGED tool_call_args
       ELSE IF content_type = "tool_use" /\ delta.type = "input_json_delta"
       THEN /\ tool_call_args' = delta.partial_json \o tool_call_args
            /\ UNCHANGED <<content_text, chunks>>
       ELSE UNCHANGED <<content_text, chunks, tool_call_args>>
    /\ events' = Append(events, [event |-> "content_block_delta", delta |-> delta])
    /\ UNCHANGED <<loop, content, content_type, tool_call_id, tool_call_name,
                   input_tokens, output_tokens, decode_errors, trace>>

\* A variant that hands a text chunk over ahead of the earlier chunks.
RawContentBlockDeltaEvent_chunk_first(delta) ==
    /\ pc = "stream"
    /\ IF content_type = "text" /\ delta.type = "text_delta"
       THEN /\ content_text' = content_text \o delta.text
            /\ chunks' = <<AssistantStreamChunk(delta.text)>> \o chunks
            /\ UNCHANGED tool_call_args
       ELSE IF content_type = "tool_use" /\ delta.type = "input_json_delta"
       THEN /\ tool_call_args' = tool_call_args \o delta.partial_json
            /\ UNCHANGED <<content_text, chunks>>
       ELSE UNCHANGED <<content_text, chunks, tool_call_args>>
    /\ events' = Append(events, [event |-> "content_block_delta", delta |-> delta])
    /\ UNCHANGED <<loop, content, content_type, tool_call_id, tool_call_name,
                   input_tokens, output_tokens, decode_errors, trace>>

\* A variant that yields the arguments received so far with every fragment.
RawContentBlockDeltaEvent_expose_args(delta) ==
    /\ pc = "stream"
    /\ IF content_type = "text" /\ delta.type = "text_delta"
       THEN /\ content_text' = content_text \o delta.text
            /\ chunks' = Append(chunks, AssistantStreamChunk(delta.text))
            /\ UNCHANGED tool_call_args
       ELSE IF content_type = "tool_use" /\ delta.type = "input_json_delta"
       THEN /\ tool_call_args' = tool_call_args \o delta.partial_json
            /\ chunks' = Append(chunks,
                  AssistantToolCallChunk(tool_call_id, tool_call_name,
                      [kind |-> "partial", items |-> tool_call_args']))
            /\ UNCHANGED content_text
       ELSE UNCHANGED <<content_text, chunks, tool_call_args>>
    /\ events' = Append(events, [event |-> "content_block_delta", delta |-> delta])
    /\ UNCHANGED <<loop, content, content_type, tool_call_id, tool_call_name,
                   input_tokens, output_tokens, decode_errors, trace>>

RawContentBlockDeltaEvent(delta) ==
    /\ pc = "stream"
    /\ IF content_type = "text" /\ delta.type = "text_delta"
       THEN /\ content_text' = content_text \o delta.text
            /\ chunks' = Append(chunks, AssistantStreamChunk(delta.text))
            /\ UNCHANGED tool_call_args
       ELSE IF content_type = "tool_use" /\ delta.type = "input_json_delta"
       THEN /\ tool_call_args' = tool_call_args \o delta.partial_json
            /\ UNCHANGED <<content_text, chunks>>
       ELSE UNCHANGED <<content_text, chunks, tool_call_args>>
    /\ events' = Append(events, [event |-> "content_block_delta", delta |-> delta])
    /\ UNCHANGED <<loop, content, content_type, tool_call_id, tool_call_name,
                   input_tokens, output_tokens, decode_errors, trace>>

\* The guard of the finalization (line 205).
finalize_guard == content_type = "tool_use" /\ Truthy(tool_call_id) /\ Truthy(tool_call_name)

\* A variant without the except clause: json.JSONDecodeError leaves the
\* generator and the run.
RawMessageDeltaEvent_no_except(tokens) ==
    /\ pc = "stream"
    /\ output_tokens' = tokens
    /\ IF finalize_guard
       THEN IF json_valid(tool_call_args)
            THEN /\ content' = Append(content,
                       AssistantContent(None,
                           <<ToolCall(tool_call_id, tool_call_name,
                                      json_loads(tool_call_args))>>))
                 /\ chunks' = Append(chunks,
                       AssistantToolCallChunk(tool_call_id, tool_call_name,
                                              json_loads(tool_call_args)))
                 /\ tool_call_id' = None
                 /\ tool_call_name' = None
                 /\ tool_call_args' = <<>>
                 /\ UNCHANGED <<pc, status, raised, failure>>
            ELSE /\ pc' = "done"
                 /\ status' = "Error"
                 /\ raised' = raised + 1
                 /\ failure' = [type |-> "JSONDecodeError", cause |-> None]
                 /\ UNCHANGED <<content, chunks, tool_call_id,
                                tool_call_name, tool_call_args>>
       ELSE UNCHANGED <<pc, status, raised, failure, content, chunks,
                        tool_call_id, tool_call_name, tool_call_args>>
    /\ events' = Append(events, [event |-> "message_delta", usage |-> tokens])
    /\ UNCHANGED <<iteration, requests, memory, open_streams, messages, turn_start,
                   decode_errors, content_type, content_text, input_tokens,
                   trace>>

\* A variant that leaves out the reset of lines 228-230.
RawMessageDeltaEvent_no_reset(tokens) ==
    /\ pc = "stream"
    /\ output_tokens' = tokens
    /\ IF finalize_guard
       THEN IF json_valid(tool_call_args)
            THEN /\ content' = Append(content,
                       AssistantContent(None,
                           <<ToolCall(tool_call_id, tool_call_name,
                                      json_loads(tool_call_args))>>))
                 /\ chunks' = Append(chunks,
                       AssistantToolCallChunk(tool_call_id, tool_call_name,
                                              json_loads(tool_call_args)))
                 /\ UNCHANGED decode_errors
            ELSE /\ decode_errors' = Append(decode_errors, tool_call_args)
                 /\ UNCHANGED <<content, chunks>>
       ELSE UNCHANGED <<content, chunks, decode_errors>>
    /\ events' = Append(events, [event |-> "message_delta", usage |-> tokens])
    /\ UNCHANGED <<loop, content_type, content_text, input_tokens, trace,
                   tool_call_id, tool_call_name, tool_call_args>>

RawMessageDeltaEvent(tokens) ==
    /\ pc = "stream"
    /\ output_tokens' = tokens
    /\ IF finalize_guard
       THEN /\ IF json_valid(tool_call_args)
               THEN /\ content' = Append(content,
                          AssistantContent(None,
                              <<ToolCall(tool_call_id, tool_call_name,
                                         json_loads(tool_call_args))>>))
                    /\ chunks' = Append(chunks,
                          AssistantToolCallChunk(tool_call_id, tool_call_name,
                                                 json_loads(tool_call_args)))
                    /\ UNCHANGED decode_errors
               ELSE /\ decode_errors' = Append(decode_errors, tool_call_args)
                    /\ UNCHANGED <<content, chunks>>
            /\ tool_call_id' = None
            /\ tool_call_name' = None
            /\ tool_call_args' = <<>>
       ELSE UNCHANGED <<content, chunks, decode_errors, tool_call_id,
                        tool_call_name, tool_call_args>>
    /\ events' = Append(events, [event |-> "message_delta", usage |-> tokens])
    /\ UNCHANGED <<loop, content_type, content_text, input_tokens, trace>>

\* _transform_stream as a function of the events ev[1..n] alone: the locals
\* after the n-th event, the chunks yielded and the contents added to the
\* chat log by then.
RECURSIVE transform_stream(_, _)
transform_stream(ev, n) ==
    IF n = 0
    THEN [content_type |-> None, content_text |-> "", tool_call_id |-> None,
          tool_call_name |-> None, tool_call_args |-> <<>>,
          chunks |-> <<>>, added |-> <<>>]
    ELSE LET s == transform_stream(ev, n - 1)
             e == ev[n]
         IN IF e.event = "content_block_start"
            THEN IF e.content_block.type = "text"
                 THEN [s EXCEPT !.content_type = "text"]
                 ELSE IF e.content_block.type = "tool_use"
                 THEN [s EXCEPT !.content_type = "tool_use",
                                !.tool_call_id = e.content_block.id,
                                !.tool_call_name = e.content_block.name]
                 ELSE s
            ELSE IF e.event = "content_block_delta"
            THEN IF s.content_type = "text" /\ e.delta.type = "text_delta"
                 THEN [s EXCEPT !.content_text = @ \o e.delta.text,
                                !.chunks = Append(@, AssistantStreamChunk(e.delta.text))]
                 ELSE IF s.content_type = "tool_use" /\ e.delta.type = "input_json_delta"
                 THEN [s EXCEPT !.tool_call_args = @ \o e.delta.partial_json]
                 ELSE s
            ELSE IF e.event = "message_delta"
            THEN IF /\ s.content_type = "tool_use"
                    /\ Truthy(s.tool_call_id)
                    /\ Truthy(s.tool_call_name)
                 THEN [s EXCEPT
                         !.added = IF json_valid(s.tool_call_args)
                                   THEN Append(@, AssistantContent(None,
                                            <<ToolCall(s.tool_call_id, s.tool_call_name,
                                                       json_loads(s.tool_call_args))>>))
                                   ELSE @,
                         !.chunks = IF json_valid(s.tool_call_args)
                                    THEN Append(@, AssistantToolCallChunk(
                                             s.tool_call_id, s.tool_call_name,
                                             json_loads(s.tool_call_args)))
                                    ELSE @,
                         !.tool_call_id = None,
                         !.tool_call_name = None,
                         !.tool_call_args = <<>>]
                 ELSE s
            ELSE s

\* The contents _transform_stream has added once the stream ev is exhausted.
transform_stream_added(ev) ==
    transform_stream(ev, Len(ev)).added
    \o (IF transform_stream(ev, Len(ev)).content_text # ""
        THEN <<AssistantContent(transform_stream(ev, Len(ev)).content_text, <<>>)>>
        ELSE <<>>)

\* A variant that stores the text in the place of the last content of the
\* log instead of behind it.
StreamEnd_rewrite ==
    /\ pc = "stream"
    /\ open_streams' = open_streams - 1
    /\ content' = IF content_text # ""
                  THEN [content EXCEPT ![Len(content)] =
                            AssistantContent(content_text, <<>>)]
                  ELSE content
    /\ trace' = IF input_tokens # 0 \/ output_tokens # 0
                THEN Append(trace, [input_tokens |-> input_tokens,
                                    output_tokens |-> output_tokens])
                ELSE trace
    /\ pc' = "check"
    /\ UNCHANGED <<iteration, requests, status, raised, failure, memory, messages, turn_start,
                   decoder, events, chunks, decode_errors>>

\* The stream is exhausted (an exhausted stream has released its connection):
\* the code after the async for (lines 232-247), then control returns to the
\* loop of _async_handle_chat_log.
StreamEnd ==
    /\ pc = "stream"
    /\ open_streams' = open_streams - 1
    /\ content' = IF content_text # ""
                  THEN Append(content, AssistantContent(content_text, <<>>))
                  ELSE content
    /\ trace' = IF input_tokens # 0 \/ output_tokens # 0
                THEN Append(trace, [input_tokens |-> input_tokens,
                                    output_tokens |-> output_tokens])
                ELSE trace
    /\ pc' = "check"
    /\ UNCHANGED <<iteration, requests, status, raised, failure, memory, messages, turn_start,
                   decoder, events, chunks, decode_errors>>

\* The failures of the provider client: anthropic.AuthenticationError,
\* anthropic.APITimeoutError / APIConnectionError, and the status errors of
\* a rejected request, all subclasses of anthropic.AnthropicError.
AnthropicErrors == {"authentication", "connection", "rejected"}

\* raise HomeAssistantError(f"Sorry, I had a problem talking to z.ai: {err}")
\* from err: one exception type for every failure; the failure itself is kept
\* as the cause (and its text in the message).
HomeAssistantError(err) == [type |-> "HomeAssistantError", cause |-> err]

\* A variant that retries the request after a failure.
StreamFailRetry ==
    /\ pc = "stream"
    /\ \E err \in AnthropicErrors : failure' = HomeAssistantError(err)
    /\ UNCHANGED memory
    /\ raised' = raised + 1
    /\ status' = "Error"
    /\ pc' = "request"
    /\ UNCHANGED open_streams
    /\ UNCHANGED <<iteration, requests, content, turn_start, messages, decoder,
                   events, chunks, decode_errors, trace>>

\* The request or the stream raises anthropic.AnthropicError (lines 360-363).
\* The handler has no finally clause, no async with and no call of
\* stream.close(): whether the failed stream has released its connection is
\* left to the client library.
StreamFail ==
    /\ pc = "stream"
    /\ \E released \in BOOLEAN :
          open_streams' = IF released THEN open_streams - 1 ELSE open_streams
    /\ \E err \in AnthropicErrors : failure' = HomeAssistantError(err)
    /\ UNCHANGED memory
    /\ raised' = raised + 1
    /\ status' = "Error"
    /\ pc' = "done"
    /\ UNCHANGED <<iteration, requests, content, turn_start, messages, decoder,
                   events, chunks, decode_errors, trace>>

\* The caller cancels the task while it awaits the request or the next event.
\* Nothing in the handler closes the stream on that path either.
Cancel ==
    /\ pc = "stream"
    /\ \E released \in BOOLEAN :
          open_streams' = IF released THEN open_streams - 1 ELSE open_streams
    /\ status' = "Cancelled"
    /\ pc' = "done"
    /\ UNCHANGED <<iteration, requests, raised, failure, memory, content, turn_start,
                   messages, decoder, events, chunks, decode_errors, trace>>

\* The tool executor answers the tool calls added to the chat log.
ToolExecutor ==
    /\ pc \in {"stream", "check"}
    /\ PendingCalls(content) # <<>>
    /\ content' = Append(content,
          ToolResultContent([i \in 1..Len(PendingCalls(content)) |->
              ToolResult(PendingCalls(content)[i].id, "ok", FALSE)]))
    /\ UNCHANGED <<loop, decoder, events, chunks, decode_errors, trace>>

\* A variant with the range one too long: range(max_iterations + 1).
range_has_next_off_by_one(it) == it < max_iterations

\* for iteration in range(max_iterations): is there a next value?
range_has_next(it) == it + 1 < max_iterations
\* if iteration == max_iterations - 1 (line 373)
reached_maximum(it) == it = max_iterations - 1

\* A variant that leaves out lines 370-371: every request carries the
\* messages of the first one.
Check_same_messages ==
    /\ pc = "check"
    /\ IF ~unresponded_tool_results(content)
       THEN /\ pc' = "done"
            /\ status' = IF reached_maximum(iteration)
                         THEN "IterationCapReached" ELSE "Completed"
            /\ UNCHANGED <<iteration, messages>>
       ELSE /\ UNCHANGED messages
            /\ IF range_has_next(iteration)
               THEN /\ iteration' = iteration + 1
                    /\ pc' = "request"
                    /\ UNCHANGED status
               ELSE /\ pc' = "done"
                    /\ status' = IF reached_maximum(iteration)
                                 THEN "IterationCapReached" ELSE "Completed"
                    /\ UNCHANGED iteration
    /\ UNCHANGED <<requests, raised, failure, memory, open_streams, content, turn_start, decoder,
                   events, chunks, decode_errors, trace>>

\* Lines 365-374: break or continue, and the code after the loop.
Check ==
    /\ pc = "check"
    /\ IF ~unresponded_tool_results(content)
       THEN /\ pc' = "done"
            /\ status' = IF reached_maximum(iteration)
                         THEN "IterationCapReached" ELSE "Completed"
            /\ UNCHANGED <<iteration, messages>>
       ELSE /\ messages' = convert_content(content)
            /\ IF range_has_next(iteration)
               THEN /\ iteration' = iteration + 1
                    /\ pc' = "request"
                    /\ UNCHANGED status
               ELSE /\ pc' = "done"
                    /\ status' = IF reached_maximum(iteration)
                                 THEN "IterationCapReached" ELSE "Completed"
                    /\ UNCHANGED iteration
    /\ UNCHANGED <<requests, raised, failure, memory, open_streams, content, turn_start, decoder,
                   events, chunks, decode_errors, trace>>

LoopMore == Len(events) < MaxStreamLen

Next ==
    \/ Request
    \/ \E t \in LoopStarts : LoopMore /\ RawMessageStartEvent(t)
    \/ \E b \in LoopBlocks : LoopMore /\ RawContentBlockStartEvent(b)
    \/ \E d \in LoopDeltas : LoopMore /\ RawContentBlockDeltaEvent(d)
    \/ \E t \in LoopUsages : LoopMore /\ RawMessageDeltaEvent(t)
    \/ StreamEnd
    \/ StreamFail
    \/ Cancel
    \/ ToolExecutor
    \/ Check

Spec == Init /\ [][Next]_vars

\* ------------------------------------------------------- a single decode run
\* The state after the first request: _transform_stream starts on a stream.
InitDecode ==
    /\ pc = "stream"
    /\ iteration = 0
    /\ requests = 1
    /\ status = "Running"
    /\ raised = 0
    /\ failure = None
    /\ MemoryIdle
    /\ open_streams = 1
    /\ content = InitialContent
    /\ turn_start = InitialContent
    /\ messages = convert_content(InitialContent)
    /\ content_type = None
    /\ content_text = ""
    /\ tool_call_id = None
    /\ tool_call_name = None
    /\ tool_call_args = <<>>
    /\ input_tokens = 0
    /\ output_tokens = 0
    /\ events = <<>>
    /\ chunks = <<>>
    /\ decode_errors = <<>>
    /\ trace = <<>>

DecodeMore == Len(events) < MaxDecodeLen

NextDecode ==
    \/ \E t \in DecodeStarts : DecodeMore /\ RawMessageStartEvent(t)
    \/ \E b \in DecodeBlocks : DecodeMore /\ RawContentBlockStartEvent(b)
    \/ \E d \in DecodeDeltas : DecodeMore /\ RawContentBlockDeltaEvent(d)
    \/ \E t \in DecodeUsages : DecodeMore /\ RawMessageDeltaEvent(t)
    \/ StreamEnd

DecodeSpec == InitDecode /\ [][NextDecode]_vars

\* ------------------------------------------------------ _convert_content alone
\* The sequences over S of length at most n.
SeqsUpTo(S, n) == UNION {[1..k -> S] : k \in 0..n}

\* The chat logs handed to _convert_content.
EncodeAttachments ==
    {[content_type |-> t, data |-> "d"] :
        t \in {<<"image", "png">>, <<"application", "pdf">>, <<"application", "zip">>}}
EncodeCalls ==
    {ToolCall("t1", "get_time", [kind |-> "int", items |-> <<>>]),
     ToolCall("t2", "turn_on", [kind |-> "list", items |-> <<>>])}
EncodeResults ==
    {ToolResult("t1", "ok", FALSE), ToolResult("t2", "", TRUE),
     ToolResult("t3", None, FALSE)}
\* The sequences of S of length at most n without a repetition: the
\* attachments of one content are different files, its tool calls have
\* different ids, and so have its results.
DistinctUpTo(S, n) ==
    {q \in SeqsUpTo(S, n) : \A i, j \in 1..Len(q) : i # j => q[i] # q[j]}
EncodeContents ==
    {UserContent(t, a) : t \in {"", "a"}, a \in DistinctUpTo(EncodeAttachments, MaxParts)}
    \cup {AssistantContent(t, c) : t \in {None, "b"}, c \in DistinctUpTo(EncodeCalls, MaxParts)}
    \cup {ToolResultContent(r) : r \in DistinctUpTo(EncodeResults, MaxParts) \ {<<>>}}

\* The caller is building the chat log it will hand to _convert_content.
InitEncode ==
    /\ pc = "encode"
    /\ content = <<>>
    /\ turn_start = <<>>
    /\ messages = <<>>
    /\ iteration = 0
    /\ requests = 0
    /\ status = "Running"
    /\ raised = 0
    /\ failure = None
    /\ MemoryIdle
    /\ open_streams = 0
    /\ content_type = None
    /\ content_text = ""
    /\ tool_call_id = None
    /\ tool_call_name = None
    /\ tool_call_args = <<>>
    /\ input_tokens = 0
    /\ output_tokens = 0
    /\ events = <<>>
    /\ chunks = <<>>
    /\ decode_errors = <<>>
    /\ trace = <<>>

\* The caller adds a content to the chat log.
AddContent(c) ==
    /\ pc = "encode"
    /\ Len(content) < MaxDialogueLen
    /\ content' = Append(content, c)
    /\ UNCHANGED <<loop, decoder, events, chunks, decode_errors, trace>>

\* messages = _convert_content(chat_log.content)
Encode ==
    /\ pc = "encode"
    /\ messages' = convert_content(content)
    /\ pc' = "encoded"
    /\ UNCHANGED <<iteration, requests, status, raised, failure, memory, open_streams, content,
                   turn_start, decoder, events, chunks, decode_errors, trace>>

NextEncode ==
    \/ \E c \in EncodeContents : AddContent(c)
    \/ Encode

EncodeSpec == InitEncode /\ [][NextEncode]_vars

\* ------------------------------------------------- AssistantMemory at work
\* The texts of preferences and of notes.
PreferenceTexts == {<<"a">>, <<"A">>, <<"A", "b">>}
NoteTexts == {<<"n">>, <<"m">>}
\* The calls a caller can make.
MemoryCalls ==
    {[op |-> "add_preference", text |-> p] : p \in PreferenceTexts}
    \cup {[op |-> "remove_preference", text |-> p] : p \in PreferenceTexts}
    \cup {[op |-> "add_note", text |-> n] : n \in NoteTexts}

\* str.lower()
lower(text) ==
    [i \in 1..Len(text) |-> IF text[i] = "A" THEN "a"
                            ELSE IF text[i] = "B" THEN "b" ELSE text[i]]

\* part in text (substring)
contains(text, part) ==
    \E k \in 0..(Len(text) - Len(part)) : SubSeq(text, k + 1, k + Len(part)) = part

\* A variant that compares the texts as they are written.
add_preference_case_sensitive(d, preference) ==
    IF \A i \in 1..Len(d.preferences) : d.preferences[i].text # preference
    THEN [d EXCEPT !.preferences = Append(@, [text |-> preference])]
    ELSE d

\* add_preference, lines 106-115, on the data d.
add_preference(d, preference) ==
    IF \A i \in 1..Len(d.preferences) :
          lower(d.preferences[i].text) # lower(preference)
    THEN [d EXCEPT !.preferences = Append(@, [text |-> preference])]
    ELSE d

\* remove_preference, lines 123-127, on the data d.
remove_preference(d, preference_text) ==
    [d EXCEPT !.preferences =
        SelectSeq(@, LAMBDA p : ~contains(lower(p.text), lower(preference_text)))]

\* add_note, lines 151-157, on the data d.
add_note(d, note) == [d EXCEPT !.notes = Append(@, [text |-> note])]

\* The data after the body of the call c has run on the data d.
Mutated(c, d) ==
    IF c.op = "add_preference" THEN add_preference(d, c.text)
    ELSE IF c.op = "remove_preference" THEN remove_preference(d, c.text)
    ELSE add_note(d, c.text)

\* Does the call go on to async_save?  (lines 114-116, 129-130, 158)
Saves(c, d) ==
    IF c.op = "add_preference" THEN add_preference(d, c.text) # d
    ELSE IF c.op = "remove_preference"
    THEN Len(remove_preference(d, c.text).preferences) < Len(d.preferences)
    ELSE TRUE

\* Everything but the memory.
conversation == <<pc, iteration, requests, status, raised, failure, open_streams,
                  messages, turn_start, content, decoder, events, chunks,
                  decode_errors, trace>>

\* The body of a method after async_load has returned with _data = d, up to
\* the await of async_save or to the return.
Body(t, c, d, has_read) ==
    /\ data' = Mutated(c, d)
    /\ loaded' = TRUE
    /\ tasks' = [tasks EXCEPT ![t] =
          [pc |-> IF Saves(c, d) THEN "save" ELSE "idle",
           call |-> c, read |-> has_read, result |-> tasks[t].result]]

\* A caller calls a method: async_load returns at once when the data is
\* loaded or there is no file, and the body runs; otherwise the call awaits
\* the executor job that reads the file (lines 54-61).
Call(t, c) ==
    /\ pc = "memory"
    /\ tasks[t].pc = "idle"
    /\ calls < MaxCalls
    /\ calls' = calls + 1
    /\ IF loaded \/ ~storage.exists
       THEN Body(t, c, data, FALSE)
       ELSE /\ tasks' = [tasks EXCEPT ![t] =
                  [pc |-> "read", call |-> c, read |-> TRUE,
                   result |-> tasks[t].result]]
            /\ UNCHANGED <<data, loaded>>
    /\ UNCHANGED <<storage, conversation>>

\* _read_file runs in the executor (lines 70-76).
ReadFile(t) ==
    /\ pc = "memory"
    /\ tasks[t].pc = "read"
    /\ tasks' = [tasks EXCEPT ![t].pc = "read_done", ![t].result = storage.data]
    /\ UNCHANGED <<data, loaded, storage, calls, conversation>>

\* The call resumes after the read: self._data = data, self._loaded = True
\* (lines 62-68), then the body.
AfterRead(t) ==
    /\ pc = "memory"
    /\ tasks[t].pc = "read_done"
    /\ Body(t, tasks[t].call, tasks[t].result, TRUE)
    /\ UNCHANGED <<storage, calls, conversation>>

\* _write_file runs in the executor (lines 86-90): it dumps _data as it is
\* when the job runs.
WriteFile(t) ==
    /\ pc = "memory"
    /\ tasks[t].pc = "save"
    /\ storage' = [exists |-> TRUE, data |-> data]
    /\ tasks' = [tasks EXCEPT ![t].pc = "save_done"]
    /\ UNCHANGED <<data, loaded, calls, conversation>>

\* The call resumes after the write and returns.
AfterSave(t) ==
    /\ pc = "memory"
    /\ tasks[t].pc = "save_done"
    /\ tasks' = [tasks EXCEPT ![t].pc = "idle"]
    /\ UNCHANGED <<data, loaded, storage, calls, conversation>>

\* An AssistantMemory right after __init__; its storage file may exist
\* (with nothing stored in it) or not.
InitMemory ==
    /\ pc = "memory"
    /\ iteration = 0
    /\ requests = 0
    /\ status = "Running"
    /\ raised = 0
    /\ failure = None
    /\ open_streams = 0
    /\ content = <<>>
    /\ turn_start = <<>>
    /\ messages = <<>>
    /\ content_type = None
    /\ content_text = ""
    /\ tool_call_id = None
    /\ tool_call_name = None
    /\ tool_call_args = <<>>
    /\ input_tokens = 0
    /\ output_tokens = 0
    /\ events = <<>>
    /\ chunks = <<>>
    /\ decode_errors = <<>>
    /\ trace = <<>>
    /\ data = DefaultData
    /\ loaded = FALSE
    /\ storage \in {[exists |-> e, data |-> DefaultData] : e \in BOOLEAN}
    /\ tasks = [t \in Tasks |-> IdleTask]
    /\ calls = 0

NextMemory ==
    \/ \E t \in Tasks, c \in MemoryCalls : Call(t, c)
    \/ \E t \in Tasks : ReadFile(t)
    \/ \E t \in Tasks : AfterRead(t)
    \/ \E t \in Tasks : WriteFile(t)
    \/ \E t \in Tasks : AfterSave(t)

MemorySpec == InitMemory /\ [][NextMemory]_vars

\* --------------------------------------------------- record_interaction
\* The names of commands, in the order in which callers first use them.
CommandOrder ==
    <<"c01", "c02", "c03", "c04", "c05", "c06", "c07", "c08", "c09", "c10", "c11",
      "c12", "c13", "c14", "c15", "c16", "c17", "c18", "c19", "c20", "c21", "c22">>

\* The first name that is not in the table f.
NewCommand(f) ==
    CommandOrder[CHOOSE n \in 1..Len(CommandOrder) :
        /\ \A i \in 1..Len(f) : f[i].command[2] # CommandOrder[n]
        /\ \A m \in 1..(n - 1) : \E i \in 1..Len(f) : f[i].command[2] = CommandOrder[m]]

\* The commands of a call when the table is f: no command (None or ""), a
\* command that is not in the table, or the command of one of the first two
\* items of the table, each written in lower or in upper case.
InteractionCommands(f) ==
    {<<>>} \cup
    {<<x, n>> : x \in {"a", "A"},
               n \in {NewCommand(f)} \cup {f[i].command[2] : i \in 1..Len(f) \cap 1..2}}

\* A variant that sorts without reverse=True.
RECURSIVE sorted_by_count_ascending(_)
sorted_by_count_ascending(f) ==
    IF f = <<>> THEN <<>>
    ELSE LET rest == sorted_by_count_ascending(SubSeq(f, 1, Len(f) - 1))
             x == f[Len(f)]
             k == Cardinality({i \in 1..Len(rest) : rest[i].count <= x.count})
         IN SubSeq(rest, 1, k) \o <<x>> \o SubSeq(rest, k + 1, Len(rest))

\* sorted(freq.items(), key=lambda x: x[1], reverse=True): by count, highest
\* first; the sort is stable, items of equal count keep their order.
RECURSIVE sorted_by_count(_)
sorted_by_count(f) ==
    IF f = <<>> THEN <<>>
    ELSE LET rest == sorted_by_count(SubSeq(f, 1, Len(f) - 1))
             x == f[Len(f)]
             k == Cardinality({i \in 1..Len(rest) : rest[i].count >= x.count})
         IN SubSeq(rest, 1, k) \o <<x>> \o SubSeq(rest, k + 1, Len(rest))

\* freq[cmd_lower] = freq.get(cmd_lower, 0) + 1 (line 221)
counted(f, cmd_lower) ==
    IF \E i \in 1..Len(f) : f[i].command = cmd_lower
    THEN [i \in 1..Len(f) |->
            IF f[i].command = cmd_lower THEN [f[i] EXCEPT !.count = @ + 1] ELSE f[i]]
    ELSE Append(f, [command |-> cmd_lower, count |-> 1])

\* record_interaction, lines 214-226, on the data d.
record_interaction(d, command) ==
    [d EXCEPT !.stats =
        [total_interactions |-> @.total_interactions + 1,
         frequent_commands |->
            IF command = <<>> THEN @.frequent_commands
            ELSE IF Len(counted(@.frequent_commands, lower(command))) > MaxFrequent
            THEN SubSeq(sorted_by_count(counted(@.frequent_commands, lower(command))),
                        1, MaxFrequent)
            ELSE counted(@.frequent_commands, lower(command))]]

\* A call of record_interaction from async_load to the end of async_save.
RecordInteraction(command) ==
    /\ pc = "stats"
    /\ calls < MaxInteractions
    /\ calls' = calls + 1
    /\ data' = record_interaction(IF loaded \/ ~storage.exists THEN data
                                  ELSE storage.data, command)
    /\ loaded' = TRUE
    /\ storage' = [exists |-> TRUE, data |-> data']
    /\ tasks' = [tasks EXCEPT !["t1"].call =
                    [op |-> "record_interaction", text |-> command]]
    /\ UNCHANGED conversation

\* async_clear (lines 287-301): it does not load and leaves _loaded alone.
AsyncClear ==
    /\ pc = "stats"
    /\ calls' = 0
    /\ data' = DefaultData
    /\ storage' = [exists |-> TRUE, data |-> DefaultData]
    /\ tasks' = [tasks EXCEPT !["t1"].call = [op |-> "async_clear", text |-> <<>>]]
    /\ UNCHANGED <<loaded, conversation>>

\* An AssistantMemory right after __init__, with one caller.
InitStats ==
    /\ pc = "stats"
    /\ iteration = 0
    /\ requests = 0
    /\ status = "Running"
    /\ raised = 0
    /\ failure = None
    /\ open_streams = 0
    /\ content = <<>>
    /\ turn_start = <<>>
    /\ messages = <<>>
    /\ content_type = None
    /\ content_text = ""
    /\ tool_call_id = None
    /\ tool_call_name = None
    /\ tool_call_args = <<>>
    /\ input_tokens = 0
    /\ output_tokens = 0
    /\ events = <<>>
    /\ chunks = <<>>
    /\ decode_errors = <<>>
    /\ trace = <<>>
    /\ data = DefaultData
    /\ loaded = FALSE
    /\ storage \in {[exists |-> e, data |-> DefaultData] : e \in BOOLEAN}
    /\ tasks = [t \in Tasks |-> IdleTask]
    /\ calls = 0

NextStats ==
    \/ \E c \in InteractionCommands(IF loaded \/ ~storage.exists
                                     THEN data.stats.frequent_commands
                                     ELSE storage.data.stats.frequent_commands) :
          RecordInteraction(c)
    \/ AsyncClear

StatsSpec == InitStats /\ [][NextStats]_vars

\* ===================================================================
\* Properties of the tool loop (Spec)
\* ===================================================================
Ended == pc = "done" /\ status \in {"Completed", "IterationCapReached"}
\* The tool calls of a log, in order.
RECURSIVE CallsOf(_)
CallsOf(c) ==
    IF c = <<>> THEN <<>>
    ELSE CallsOf(SubSeq(c, 1, Len(c) - 1)) \o c[Len(c)].tool_calls
NoToolCallIn(c) == \A i \in 1..Len(c) : c[i].tool_calls = <<>>

\* C1: a run in which every check finds unresponded tool results (the run
\* ends with the log still ending in tool results, so no check broke out of
\* the loop) makes exactly max_iterations requests and ends with status
\* IterationCapReached; no run ever makes more than max_iterations requests.
C1_CapAfterMaxIterations ==
    /\ requests <= max_iterations
    /\ (Ended /\ unresponded_tool_results(content))
          => (requests = max_iterations /\ status = "IterationCapReached")

\* A capped run in which each of the max_iterations assistant turns held a
\* tool call that the executor answered.
C1_Witness ==
    /\ Ended
    /\ unresponded_tool_results(content)
    /\ requests = max_iterations
    /\ Len(CallsOf(content)) = max_iterations
    /\ Len(content) = Len(InitialContent) + 2 * max_iterations

\* What is left of a run: the iterations not yet started, then the steps the
\* current iteration can still take (events of the stream, which has at most
\* MaxStreamLen of them, the executor's answer, the end of the stream, the
\* check).  Every step of a run lowers it.
StepsLeft ==
    IF pc = "done" THEN 0
    ELSE (max_iterations - 1 - iteration) * (2 * MaxStreamLen + 5)
         + (IF PendingCalls(content) # <<>> THEN 1 ELSE 0)
         + (CASE pc = "request" -> 2 * MaxStreamLen + 3
              [] pc = "stream" -> 2 * (MaxStreamLen - Len(events)) + 2
              [] OTHER -> 1)

\* C2: every run terminates.  Each step lowers StepsLeft, which is never
\* negative, so a run has finitely many steps; a run that is not over stands
\* at the request, in the stream or at the check, where the request can be
\* made, the stream can end (or fail) and the check can be taken; a run that
\* is over has a terminal outcome (Completed, IterationCapReached, a surfaced
\* error, or cancelled); and at no time has a run made more than
\* max_iterations requests.
C2_RunTerminates ==
    /\ [][StepsLeft' < StepsLeft]_vars
    /\ [](StepsLeft >= 0)
    /\ [](pc \in {"request", "stream", "check", "done"})
    /\ [](pc = "done" <=> status \in {"Completed", "IterationCapReached",
                                       "Error", "Cancelled"})
    /\ [](requests <= max_iterations)

\* A run that came to its end as Completed after several round trips.
C2_Witness ==
    /\ pc = "done"
    /\ status = "Completed"
    /\ requests = 3
    /\ Len(CallsOf(content)) = 2

\* C3: a run whose first assistant turn holds no tool call (then the log
\* never holds one: the run ends there) ends as Completed after exactly one
\* request.
C3_NoToolCallCompletesAtOnce ==
    /\ NoToolCallIn(content) => (requests <= 1 /\ iteration = 0)
    /\ (Ended /\ NoToolCallIn(content))
          => (status = "Completed" /\ requests = 1)

\* The first stream produced text only and the run is over.
C3_Witness ==
    /\ Ended
    /\ requests = 1
    /\ content = InitialContent \o <<AssistantContent("aa", <<>>)>>

\* C4 (as claimed): the run reports IterationCapReached exactly when a
\* continuation is still required at its end; a run whose last permitted
\* iteration leaves no unresponded tool results ends as Completed.
C4_CapIffContinuationRequired ==
    Ended => (status = "IterationCapReached" <=> unresponded_tool_results(content))

\* C9: a failure of the request or of the stream, at any point of any
\* iteration, ends the run at once: the step that raises is the only one that
\* does, it surfaces one error and leaves the run done with the requests made
\* so far, and no step (no retry, no later iteration) is taken after it.
C9_FailureAbortsRun ==
    /\ [][/\ status # "Error"
          /\ raised' # raised =>
                /\ raised' = 1
                /\ status' = "Error"
                /\ pc' = "done"
                /\ requests' = requests]_vars
    /\ [](status = "Error" <=> raised = 1)

\* A stream that failed after two events, in the third iteration.
C9_Witness ==
    /\ status = "Error"
    /\ raised = 1
    /\ iteration = 2
    /\ requests = 3
    /\ Len(events) = 2

\* C10 (as claimed): after a failure or a cancellation the dialogue is what
\* it was when the interrupted iteration began; nothing of that iteration
\* has been appended.
C10_InterruptedTurnNotAppended ==
    status \in {"Error", "Cancelled"} => content = turn_start

\* ===================================================================
\* Properties of the decoder (DecodeSpec, and Spec for the enclosing run)
\* ===================================================================
IsBlockStart(e) == e.event = "content_block_start"
IsToolStart(e) == IsBlockStart(e) /\ e.content_block.type = "tool_use"
IsJsonDelta(e) == e.event = "content_block_delta" /\ e.delta.type = "input_json_delta"
IsTextDelta(e) == e.event = "content_block_delta" /\ e.delta.type = "text_delta"
IsMessageDelta(e) == e.event = "message_delta"

\* The JSON fragments of the events ev[i..j], joined in arrival order.
RECURSIVE JsonBetween(_, _, _)
JsonBetween(ev, i, j) ==
    IF j < i THEN <<>>
    ELSE JsonBetween(ev, i, j - 1)
         \o (IF IsJsonDelta(ev[j]) THEN ev[j].delta.partial_json ELSE <<>>)

\* BlockStart(tool_use, id, name), BlockDelta(jsonFragment)*, MessageDelta.
SingleToolStream(ev) ==
    /\ Len(ev) >= 2
    /\ IsToolStart(ev[1])
    /\ IsMessageDelta(ev[Len(ev)])
    /\ \A k \in 2..(Len(ev) - 1) : IsJsonDelta(ev[k])

\* What the current stream has added to the dialogue.
Appended == SubSeq(content, Len(turn_start) + 1, Len(content))

\* C5: for a stream BlockStart(tool_use, id, name), json fragments,
\* MessageDelta whose fragments join, in arrival order, to valid JSON, the
\* dialogue has gained exactly one assistant content with exactly one tool
\* call of that id and name whose args are the parsed concatenation, and
\* exactly one chunk, a tool-call chunk with the same id, name and args, has
\* been handed to the caller.
C5_ToolJsonAssembly ==
    (SingleToolStream(events) /\ json_valid(JsonBetween(events, 2, Len(events) - 1)))
        => LET block == events[1].content_block
               args == json_loads(JsonBetween(events, 2, Len(events) - 1))
           IN /\ Appended = <<AssistantContent(None,
                                 <<ToolCall(block.id, block.name, args)>>)>>
              /\ chunks = <<AssistantToolCallChunk(block.id, block.name, args)>>

\* The stream  tool_use(t2, turn_on)  [  1  ]  MessageDelta  has been decoded
\* into the call turn_on([1]).
C5_Witness ==
    /\ pc = "check"
    /\ SingleToolStream(events)
    /\ JsonBetween(events, 2, Len(events) - 1) = <<"[", "1", "]">>
    /\ chunks = <<AssistantToolCallChunk("t2", "turn_on",
                     [kind |-> "list",
                      items |-> <<[kind |-> "int", items |-> <<>>]>>])>>

\* C6: a MessageDelta that finalizes a tool block whose accumulated fragments
\* are not valid JSON appends nothing to the dialogue, hands no chunk to the
\* caller, records one decode error, and leaves the decode and the run going
\* (nothing is raised); and after a stream BlockStart(tool_use), json
\* fragments, MessageDelta with an invalid concatenation no tool call has been
\* finalized and that concatenation is the one error recorded.
C6_MalformedToolJsonDiscarded ==
    /\ [][(/\ pc = "stream"
           /\ Len(events') = Len(events) + 1
           /\ IsMessageDelta(events'[Len(events')])
           /\ finalize_guard
           /\ ~json_valid(tool_call_args))
          => (/\ content' = content
              /\ chunks' = chunks
              /\ decode_errors' = Append(decode_errors, tool_call_args)
              /\ pc' = "stream"
              /\ status' = "Running"
              /\ raised' = raised)]_vars
    /\ []((/\ SingleToolStream(events)
           /\ ~json_valid(JsonBetween(events, 2, Len(events) - 1))
           /\ pc \in {"stream", "check"})
          => (/\ Appended = <<>>
              /\ chunks = <<>>
              /\ decode_errors = <<JsonBetween(events, 2, Len(events) - 1)>>
              /\ status = "Running"
              /\ raised = 0))

\* In a later iteration the truncated arguments  [  were followed directly by
\* MessageDelta; the stream has ended and the run is at its check.
C6_Witness ==
    /\ pc = "check"
    /\ iteration = 1
    /\ status = "Running"
    /\ SingleToolStream(events)
    /\ decode_errors = <<<<"[">>>>
    /\ Appended = <<>>

\* The end of the block opened at ev[i]: the next BlockStart or MessageDelta
\* (0 when the block is still open).
BlockEnd(ev, i) ==
    LET ends == {j \in (i + 1)..Len(ev) : IsBlockStart(ev[j]) \/ IsMessageDelta(ev[j])}
    IN IF ends = {} THEN 0 ELSE CHOOSE j \in ends : \A k \in ends : j <= k

\* The tool calls of the closed tool blocks among ev[1..n] whose own fragments
\* are valid JSON, each with its own id, name and fragments.
RECURSIVE ClosedBlockCalls(_, _)
ClosedBlockCalls(ev, n) ==
    IF n = 0 THEN <<>>
    ELSE ClosedBlockCalls(ev, n - 1)
         \o (IF /\ IsToolStart(ev[n])
                /\ BlockEnd(ev, n) # 0
                /\ json_valid(JsonBetween(ev, n + 1, BlockEnd(ev, n) - 1))
             THEN <<ToolCall(ev[n].content_block.id, ev[n].content_block.name,
                             json_loads(JsonBetween(ev, n + 1, BlockEnd(ev, n) - 1)))>>
             ELSE <<>>)

\* No MessageDelta before the last event of the stream so far.
MessageDeltaOnlyLast(ev) == \A k \in 1..(Len(ev) - 1) : ~IsMessageDelta(ev[k])

\* C7 (as claimed): a BlockStart or MessageDelta closes and finalizes the open
\* tool block: the tool calls added to the dialogue are, in order, those of
\* the closed tool blocks whose own fragments are valid JSON.
C7_BlockStartFinalizesOpenBlock ==
    MessageDeltaOnlyLast(events)
        => CallsOf(Appended) = ClosedBlockCalls(events, Len(events))

\* The last BlockStart among ev[1..n] (0 when there is none).
LastBlockStart(ev, n) ==
    LET starts == {j \in 1..n : IsBlockStart(ev[j])}
    IN IF starts = {} THEN 0 ELSE CHOOSE j \in starts : \A k \in starts : k <= j

\* The text fragments among ev[1..n] that arrived while a text block was open.
RECURSIVE TextInTextBlocks(_, _)
TextInTextBlocks(ev, n) ==
    IF n = 0 THEN ""
    ELSE TextInTextBlocks(ev, n - 1)
         \o (IF /\ IsTextDelta(ev[n])
                /\ LastBlockStart(ev, n) # 0
                /\ ev[LastBlockStart(ev, n)].content_block.type = "text"
             THEN ev[n].delta.text ELSE "")

\* C8 (as claimed): fragments are attributed to the block that was open when
\* they arrived: the args buffer of the open tool block holds exactly the
\* JSON fragments received since that block's own BlockStart, and the text
\* accumulator holds exactly the text fragments received in text blocks.
C8_FragmentsAttributedToOpenBlock ==
    /\ finalize_guard
          => tool_call_args =
                JsonBetween(events, LastBlockStart(events, Len(events)) + 1, Len(events))
    /\ content_text = TextInTextBlocks(events, Len(events))

\* ===================================================================
\* Streams, turns and increments
\* ===================================================================
\* C11 (as claimed): when the run has ended, by completion, by the iteration
\* cap, by a stream error or by cancellation, no stream it opened is still
\* open.
C11_StreamsReleasedOnExit ==
    pc = "done" => open_streams = 0

\* The tool-call chunks among the chunks handed to the caller.
ToolCallChunks == SelectSeq(chunks, LAMBDA c : c.chunk = "tool_call")

\* The text of a content, empty when it has none.
TextOf(c) == IF c.content = None THEN "" ELSE c.content

\* C12 (as claimed): a stream that completed having produced text or tool
\* calls has added exactly one assistant content to the dialogue, and that
\* one content carries the final text and all the tool calls finalized from
\* the stream, in arrival order.
C12_OneAssistantTurnPerStream ==
    (pc = "check" /\ (content_text # "" \/ ToolCallChunks # <<>>))
        => /\ Len(Appended) = 1
           /\ Appended[1].role = "assistant"
           /\ TextOf(Appended[1]) = content_text
           /\ Appended[1].tool_calls =
                 [i \in 1..Len(ToolCallChunks) |->
                     ToolCall(ToolCallChunks[i].id, ToolCallChunks[i].name,
                              ToolCallChunks[i].args)]

\* C13 (as claimed): a stream that completed with empty text and no finalized
\* tool call has added one empty assistant content to the dialogue.
C13_EmptyTurnAppended ==
    (pc = "check" /\ content_text = "" /\ ToolCallChunks = <<>>)
        => /\ Len(Appended) = 1
           /\ Appended[1].role = "assistant"
           /\ TextOf(Appended[1]) = ""
           /\ Appended[1].tool_calls = <<>>

\* The text of the text chunks among c[1..n], joined in the order handed over.
RECURSIVE ChunkText(_, _)
ChunkText(c, n) ==
    IF n = 0 THEN ""
    ELSE ChunkText(c, n - 1) \o (IF c[n].chunk = "text" THEN c[n].text ELSE "")

\* The contents of a log that carry text.
WithText(c) == SelectSeq(c, LAMBDA x : TextOf(x) # "")

\* C14: the assistant text of a decode run is the concatenation, in arrival
\* order, of the text fragments of all text blocks of the stream, it is the
\* concatenation of the text chunks handed to the caller, and when the stream
\* has ended a non-empty text is in the dialogue as one content, the last one
\* (several text blocks are joined into one text).
C14_FinalTextIsConcatenation ==
    /\ content_text = TextInTextBlocks(events, Len(events))
    /\ content_text = ChunkText(chunks, Len(chunks))
    /\ (pc = "check" /\ content_text # "")
          => /\ WithText(Appended) = <<AssistantContent(content_text, <<>>)>>
             /\ Appended[Len(Appended)] = AssistantContent(content_text, <<>>)
    /\ (pc = "check" /\ content_text = "") => WithText(Appended) = <<>>

\* Two text blocks, "a" then "b", ended as the one text "ab".
C14_Witness ==
    /\ pc = "check"
    /\ Len(events) = 4
    /\ IsBlockStart(events[1]) /\ IsTextDelta(events[2])
    /\ IsBlockStart(events[3]) /\ IsTextDelta(events[4])
    /\ content_text = "ab"
    /\ Appended = <<AssistantContent("ab", <<>>)>>

\* The step consumes one more event of the stream.
EventStep == Len(events') = Len(events) + 1
LastEvent == events'[Len(events')]

\* C15: chunks reach the caller in the order of the events that caused them:
\* a step that consumes an event hands over at most one chunk, after all the
\* chunks handed over before, and that chunk is caused by that event (a text
\* chunk carries the text of the BlockDelta just received, a tool-call chunk
\* comes from the MessageDelta just received); the end of the stream hands
\* over nothing.
C15_ChunksInArrivalOrder ==
    [][IF EventStep
       THEN \/ chunks' = chunks
            \/ /\ chunks' = Append(chunks, chunks'[Len(chunks')])
               /\ \/ /\ chunks'[Len(chunks')].chunk = "text"
                     /\ IsTextDelta(LastEvent)
                     /\ chunks'[Len(chunks')].text = LastEvent.delta.text
                  \/ /\ chunks'[Len(chunks')].chunk = "tool_call"
                     /\ IsMessageDelta(LastEvent)
       ELSE chunks' = chunks]_vars

\* A text chunk, then the chunk of the tool call that was finalized later.
C15_Witness ==
    /\ Len(events) = 5
    /\ IsTextDelta(events[2])
    /\ IsMessageDelta(events[5])
    /\ chunks = <<AssistantStreamChunk("a"),
                  AssistantToolCallChunk("t1", "get_time",
                                         [kind |-> "int", items |-> <<>>])>>

\* The type of the block that is open after the events ev: that of the last
\* BlockStart, as long as no MessageDelta has arrived.
OpenBlock(ev) ==
    IF LastBlockStart(ev, Len(ev)) = 0 \/ \E j \in 1..Len(ev) : IsMessageDelta(ev[j])
    THEN None
    ELSE ev[LastBlockStart(ev, Len(ev))].content_block.type

\* C16: a text fragment received in an open text block is handed to the
\* caller at once, as one text chunk carrying exactly that fragment; a JSON
\* fragment received in an open tool block hands over nothing; and a
\* tool-call chunk is handed over only by a MessageDelta, with the parse of
\* the complete, valid argument buffer.
C16_TextAtOnceArgsOnlyWhenComplete ==
    [][EventStep =>
          /\ (IsTextDelta(LastEvent) /\ OpenBlock(events) = "text")
                => chunks' = Append(chunks, AssistantStreamChunk(LastEvent.delta.text))
          /\ (IsJsonDelta(LastEvent) /\ OpenBlock(events) = "tool_use")
                => chunks' = chunks
          /\ (chunks' # chunks /\ chunks'[Len(chunks')].chunk = "tool_call")
                => /\ IsMessageDelta(LastEvent)
                   /\ json_valid(tool_call_args)
                   /\ chunks'[Len(chunks')].args = json_loads(tool_call_args)]_vars

\* The text "a" has reached the caller; the fragment  [  of the tool block
\* that followed is in the buffer and has reached nobody.
C16_Witness ==
    /\ pc = "stream"
    /\ Len(events) = 4
    /\ IsTextDelta(events[2])
    /\ IsToolStart(events[3])
    /\ IsJsonDelta(events[4])
    /\ chunks = <<AssistantStreamChunk("a")>>
    /\ tool_call_args = <<"[">>

\* The assistant contents of a log.
AssistantOf(c) == SelectSeq(c, LAMBDA x : x.role = "assistant")

\* C17: a decode run depends on nothing but the events it is fed: in every
\* iteration of the loop, whatever the runs before it received, the chunks
\* handed over, the decoder's buffers and the assistant content added to the
\* chat log are the values of one function of the events received in this
\* run; two runs fed the same events therefore produce the same chunks and the
\* same assistant content.
C17_DecodeDependsOnEventsOnly ==
    /\ pc \in {"stream", "check"}
          => /\ chunks = transform_stream(events, Len(events)).chunks
             /\ content_text = transform_stream(events, Len(events)).content_text
             /\ tool_call_args = transform_stream(events, Len(events)).tool_call_args
             /\ content_type = transform_stream(events, Len(events)).content_type
    /\ pc = "stream"
          => AssistantOf(Appended) = transform_stream(events, Len(events)).added
    /\ pc = "check" => AssistantOf(Appended) = transform_stream_added(events)

\* The second run of the loop was fed the events of the first one (a tool
\* block with the argument 1) and has added the content the first one added.
C17_Witness ==
    /\ pc = "check"
    /\ iteration = 1
    /\ Len(events) = 3
    /\ IsToolStart(events[1]) /\ IsJsonDelta(events[2]) /\ IsMessageDelta(events[3])
    /\ chunks = <<AssistantToolCallChunk("t1", "get_time",
                                         [kind |-> "int", items |-> <<>>])>>
    /\ Len(content) >= 4
    /\ content[2] = content[4]
    /\ content[4] = AssistantContent(None,
           <<ToolCall("t1", "get_time", [kind |-> "int", items |-> <<>>])>>)

\* p is a prefix of q.
IsPrefix(p, q) == Len(p) <= Len(q) /\ SubSeq(q, 1, Len(p)) = p

\* C18: the chat log only grows during a run: every step of the decoder, of
\* the tool executor and of the loop leaves the log it found as a prefix of
\* the log it leaves, so the log handed to the run and the log as it stood at
\* the start of the current stream are prefixes of the log at every moment.
C18_DialogueAppendOnly ==
    /\ [][IsPrefix(content, content')]_vars
    /\ [](IsPrefix(InitialContent, content) /\ IsPrefix(turn_start, content))

\* Two iterations have appended to the log: in the third one the decoder
\* has added a tool call and the tool executor its result behind the five
\* contents the stream started from.
C18_Witness ==
    /\ pc = "check"
    /\ iteration = 2
    /\ Len(turn_start) = 5
    /\ Len(Appended) = 2
    /\ Appended[1].tool_calls # <<>>
    /\ Appended[2].role = "tool_result"

\* C19: every request carries the encoding of the whole chat log as it
\* stands when the request is made (while the stream of a request is read,
\* model_args["messages"] is the encoding of the log the stream started
\* from), and the messages of the next request are those of the request
\* before, in order, followed by the encoding of what the iteration appended:
\* the assistant contents and the tool results (nothing more when the
\* iteration appended nothing).
C19_RequestReplaysHistory ==
    /\ [](pc = "request" => messages = convert_content(content))
    /\ [](pc = "stream" => messages = convert_content(turn_start))
    /\ [][(pc = "check" /\ pc' = "request")
            => /\ messages' = messages \o convert_content(Appended)
               /\ \A i \in 1..Len(Appended) :
                     Appended[i].role \in {"assistant", "tool_result"}]_vars

\* The second request: the user's input, the tool call of the first
\* iteration and its result.
C19_Witness ==
    /\ pc = "stream"
    /\ iteration = 1
    /\ requests = 2
    /\ Len(messages) = 3
    /\ messages[1].role = "user"
    /\ messages[2].role = "assistant"
    /\ messages[2].content[1].type = "tool_use"
    /\ messages[3].content[1].type = "tool_result"

\* ===================================================================
\* Properties of the encoding (EncodeSpec)
\* ===================================================================
\* The tool-result part of one result.
ToolResultPart(r) ==
    [type |-> "tool_result", tool_use_id |-> r.call_id,
     content |-> IF Truthy(r.result) THEN r.result ELSE "",
     is_error |-> r.error]

\* C20 (as claimed): a chat log of tool-result contents is encoded as one
\* message per content, with role user, holding one tool-result part per
\* result, in order, each with the call id, the content and the error flag.
C20_OneMessagePerToolResultTurn ==
    (pc = "encoded" /\ \A i \in 1..Len(content) : content[i].role = "tool_result")
        => /\ Len(messages) = Len(content)
           /\ \A i \in 1..Len(content) :
                 messages[i] =
                     [role |-> "user",
                      content |-> [j \in 1..Len(content[i].tool_results) |->
                                      ToolResultPart(content[i].tool_results[j])]]

\* The attachments the encoding keeps: images and PDF documents.
Supported(a) == a.content_type[1] = "image" \/ a.content_type = <<"application", "pdf">>
SupportedOf(attachments) == SelectSeq(attachments, Supported)
\* The parts of a message that are not text parts.
NonText(parts) == SelectSeq(parts, LAMBDA x : x.type # "text")
\* The text parts of a message.
TextParts(parts) == SelectSeq(parts, LAMBDA x : x.type = "text")
\* Every content before the i-th one yields one message, so that the i-th
\* message is the encoding of the i-th content.
OneToOneBefore(c, i) == \A k \in 1..(i - 1) : c[k].role \in {"user", "assistant"}

\* C21: a chat log of user contents only is encoded as one message with
\* role user per content, in order; the message of a content with text
\* starts with that text, and a content with empty text and no supported
\* attachment still yields a message (with no part).
C21_UserOnlyDialogueKeepsCount ==
    (pc = "encoded" /\ \A i \in 1..Len(content) : content[i].role = "user")
        => /\ Len(messages) = Len(content)
           /\ \A i \in 1..Len(content) :
                 /\ messages[i].role = "user"
                 /\ TextParts(messages[i].content)
                       = IF content[i].content = "" THEN <<>>
                         ELSE <<[type |-> "text", text |-> content[i].content]>>
                 /\ Len(messages[i].content)
                       = Len(TextParts(messages[i].content))
                         + Len(SupportedOf(content[i].attachments))

\* An empty user content, then one with text: two messages, the first empty.
C21_Witness ==
    /\ pc = "encoded"
    /\ content = <<UserContent("", <<>>), UserContent("a", <<>>)>>
    /\ Len(messages) = 2
    /\ messages[1] = [role |-> "user", content |-> <<>>]
    /\ messages[2].content = <<[type |-> "text", text |-> "a"]>>

\* C22: in the message of a user content, the text part (if the text is not
\* empty) comes first and is followed by one part per supported attachment,
\* in attachment order: an image part for an image, a document part for a
\* PDF, each with the attachment's type and data; every other attachment
\* is left out.
C22_UnsupportedAttachmentsOmitted ==
    pc = "encoded"
        => \A i \in 1..Len(content) :
              (content[i].role = "user" /\ OneToOneBefore(content, i))
                 => /\ messages[i].content
                          = TextParts(messages[i].content) \o NonText(messages[i].content)
                    /\ Len(TextParts(messages[i].content))
                          = IF content[i].content = "" THEN 0 ELSE 1
                    /\ NonText(messages[i].content)
                          = [k \in 1..Len(SupportedOf(content[i].attachments)) |->
                               [type |-> IF SupportedOf(content[i].attachments)[k].content_type[1]
                                              = "image"
                                         THEN "image" ELSE "document",
                                source |->
                                   [type |-> "base64",
                                    media_type |->
                                       SupportedOf(content[i].attachments)[k].content_type,
                                    data |-> SupportedOf(content[i].attachments)[k].data]]]

\* A text with a PNG and a zip archive: the text part and the image part.
C22_Witness ==
    /\ pc = "encoded"
    /\ Len(content) = 1
    /\ content[1].role = "user"
    /\ content[1].content = "a"
    /\ Len(content[1].attachments) = 2
    /\ content[1].attachments[1].content_type = <<"image", "png">>
    /\ content[1].attachments[2].content_type = <<"application", "zip">>
    /\ Len(messages) = 1
    /\ Len(messages[1].content) = 2
    /\ messages[1].content[2].type = "image"

\* C23: an assistant content is encoded as one message with role assistant:
\* a text part exactly when the text is not empty, then one tool-use part
\* per tool call in the order of the calls, each with the id, the name and
\* the args of its call.
C23_AssistantTurnOneMessage ==
    pc = "encoded"
        => /\ (\A i \in 1..Len(content) : content[i].role \in {"user", "assistant"})
                 => Len(messages) = Len(content)
           /\ \A i \in 1..Len(content) :
                 (content[i].role = "assistant" /\ OneToOneBefore(content, i))
                    => /\ messages[i].role = "assistant"
                       /\ messages[i].content
                             = (IF content[i].content \in {None, ""} THEN <<>>
                                ELSE <<[type |-> "text", text |-> content[i].content]>>)
                               \o [k \in 1..Len(content[i].tool_calls) |->
                                     [type |-> "tool_use",
                                      id |-> content[i].tool_calls[k].id,
                                      name |-> content[i].tool_calls[k].name,
                                      input |-> content[i].tool_calls[k].args]]

\* A text and two tool calls: the text part, then the tool uses t2 and t1 in
\* the order of the calls.
C23_Witness ==
    /\ pc = "encoded"
    /\ Len(content) = 2
    /\ content[2].role = "assistant"
    /\ content[2].content = "b"
    /\ Len(content[2].tool_calls) = 2
    /\ content[2].tool_calls[1].id = "t2"
    /\ Len(messages) = 2
    /\ Len(messages[2].content) = 3
    /\ messages[2].content[2].id = "t2"
    /\ messages[2].content[3].id = "t1"

\* ===================================================================
\* Failures, usage and the end of a stream
\* ===================================================================
\* C24 (as claimed): the exception that leaves a failed run tells the kind
\* of the failure by its type: a run that fails with another kind of failure
\* (authentication, timeout/connection, rejected request) surfaces an
\* exception of another type.
C24_FailureTypeTellsKind ==
    (pc = "done" /\ status = "Error")
        => \A err \in AnthropicErrors \ {failure.cause} :
              HomeAssistantError(err).type # failure.type

\* The usage of the last event of the given kind among ev (0: no such event).
LastUsage(ev, kind) ==
    LET at == {j \in 1..Len(ev) : ev[j].event = kind}
    IN IF at = {} THEN 0
       ELSE ev[CHOOSE j \in at : \A k \in at : k <= j].usage

\* C25 (as claimed): a decode run that has completed has reported the token
\* usage exactly once, with the input tokens of MessageStart and the output
\* tokens of MessageDelta; nothing is reported before the stream ends, and
\* the chat log holds no content for the report.
C25_UsageReportedOnce ==
    /\ pc = "stream" => trace = <<>>
    /\ pc = "check"
          => /\ trace = <<[input_tokens |-> LastUsage(events, "message_start"),
                           output_tokens |-> LastUsage(events, "message_delta")]>>
             /\ \A i \in 1..Len(content) :
                   content[i].role \in {"user", "assistant", "tool_result"}

\* C26: a run has at most one provider stream open at any time: a request is
\* made only when no stream of the run is open, and it opens one stream; the
\* decoder takes the events of that stream one at a time.
C26_OneStreamInFlight ==
    /\ [](open_streams \in {0, 1})
    /\ [](pc = "request" => open_streams = 0)
    /\ [](pc = "stream" => open_streams = 1)
    /\ [][requests' # requests
            => /\ pc = "request" /\ pc' = "stream"
               /\ open_streams = 0 /\ open_streams' = 1
               /\ requests' = requests + 1
               /\ events' = <<>>]_vars
    /\ [][(events' # events /\ requests' = requests)
            => events' = Append(events, LastEvent)]_vars

\* The stream of the second iteration is open, that of the first one was
\* read to its end and released.
C26_Witness ==
    /\ pc = "stream"
    /\ iteration = 1
    /\ requests = 2
    /\ open_streams = 1
    /\ Len(events) = 1

\* A MessageDelta is among the events ev.
SeenMessageDelta(ev) == \E j \in 1..Len(ev) : IsMessageDelta(ev[j])

\* C27 (as claimed): once a MessageDelta has arrived, an event that arrives
\* later in the same stream hands over no chunk and changes neither the text
\* nor the tool calls added to the chat log.
C27_NothingAfterMessageDelta ==
    [][(EventStep /\ SeenMessageDelta(events))
          => /\ chunks' = chunks
             /\ content_text' = content_text
             /\ CallsOf(content') = CallsOf(content)]_vars

\* The tool-use BlockStarts among ev.
ToolStarts(ev) == {j \in 1..Len(ev) : IsToolStart(ev[j])}

\* C28: a tool call is finalized at most once in a decode run: a
\* MessageDelta that finds a tool block open (its id is held) finalizes or
\* discards it and leaves id, name and argument buffer cleared; the run has at most one tool-call chunk and one tool call
\* in the chat log per tool BlockStart, the same ones; and a MessageDelta
\* that arrives with no tool BlockStart since the MessageDelta before it
\* adds nothing to the chat log, hands over no chunk and logs no error.
C28_ToolCallFinalizedOnce ==
    /\ [][(/\ EventStep
           /\ IsMessageDelta(LastEvent)
           /\ content_type = "tool_use"
           /\ tool_call_id # None)
            => /\ tool_call_id' = None
               /\ tool_call_name' = None
               /\ tool_call_args' = <<>>
               /\ Len(chunks') <= Len(chunks) + 1
               /\ Len(content') <= Len(content) + 1]_vars
    /\ [](/\ Len(ToolCallChunks) <= Cardinality(ToolStarts(events))
          /\ CallsOf(Appended)
                = [i \in 1..Len(ToolCallChunks) |->
                     ToolCall(ToolCallChunks[i].id, ToolCallChunks[i].name,
                              ToolCallChunks[i].args)])
    /\ [][(/\ EventStep
           /\ IsMessageDelta(LastEvent)
           /\ \E j \in 1..Len(events) :
                 /\ IsMessageDelta(events[j])
                 /\ \A k \in (j + 1)..Len(events) : ~IsToolStart(events[k]))
            => /\ content' = content
               /\ chunks' = chunks
               /\ decode_errors' = decode_errors]_vars

\* A tool block with the argument 1, then two MessageDeltas: one tool call.
C28_Witness ==
    /\ Len(events) = 4
    /\ IsToolStart(events[1])
    /\ IsJsonDelta(events[2])
    /\ IsMessageDelta(events[3])
    /\ IsMessageDelta(events[4])
    /\ Len(chunks) = 1
    /\ Len(CallsOf(Appended)) = 1
    /\ tool_call_id = None

\* ===================================================================
\* Properties of AssistantMemory (MemorySpec)
\* ===================================================================
\* The data d holds what the call c adds.
HoldsEffect(c, d) ==
    IF c.op = "add_note"
    THEN \E i \in 1..Len(d.notes) : d.notes[i].text = c.text
    ELSE \E i \in 1..Len(d.preferences) :
            lower(d.preferences[i].text) = lower(c.text)

\* C29 (as claimed): when two adding calls on an instance that is not loaded
\* and whose file exists have both read the file (both entered async_load
\* before either load had finished) and both have returned, the data in
\* memory and the file hold what both calls added.
C29_NoLostUpdate ==
    (/\ calls = 2
     /\ \A t \in Tasks : /\ tasks[t].pc = "idle"
                         /\ tasks[t].read
                         /\ tasks[t].call.op \in {"add_preference", "add_note"})
        => \A t \in Tasks : /\ HoldsEffect(tasks[t].call, data)
                            /\ HoldsEffect(tasks[t].call, storage.data)

\* No two preferences of the list have the same text, case ignored.
NoDuplicates(preferences) ==
    \A i, j \in 1..Len(preferences) :
        i # j => lower(preferences[i].text) # lower(preferences[j].text)

\* The step is the body of the call c of caller t, run on the data d.
BodyStep(t) ==
    /\ tasks'[t].pc \in {"save", "idle"}
    /\ \A u \in Tasks \ {t} : tasks'[u] = tasks[u]
    /\ \/ tasks[t].pc = "read_done"
       \/ tasks[t].pc = "idle" /\ calls' = calls + 1
\* The data the body of that step runs on.
BodyData(t) == IF tasks[t].pc = "read_done" THEN tasks[t].result ELSE data

\* C30: on a store that starts empty, the preferences in memory and in the
\* file never hold the same text twice, case ignored; and an add_preference
\* whose text is in the list already (case ignored) leaves the list as it
\* is and returns without a save.
C30_PreferencesUnique ==
    /\ [](NoDuplicates(data.preferences) /\ NoDuplicates(storage.data.preferences))
    /\ [][\A t \in Tasks :
            (/\ BodyStep(t)
             /\ tasks'[t].call.op = "add_preference"
             /\ \E i \in 1..Len(BodyData(t).preferences) :
                   lower(BodyData(t).preferences[i].text) = lower(tasks'[t].call.text))
               => /\ data'.preferences = BodyData(t).preferences
                  /\ tasks'[t].pc = "idle"
                  /\ storage' = storage]_vars

\* The preference a was added and saved; the call that added A after it has
\* returned and the list is as it was.
C30_Witness ==
    /\ calls = 2
    /\ \A t \in Tasks : tasks[t].pc = "idle" /\ ~tasks[t].read
    /\ tasks["t1"].call = [op |-> "add_preference", text |-> <<"a">>]
    /\ tasks["t2"].call = [op |-> "add_preference", text |-> <<"A">>]
    /\ data.preferences = <<[text |-> <<"a">>]>>
    /\ storage = [exists |-> TRUE, data |-> data]

\* ===================================================================
\* Properties of the interaction statistics (StatsSpec)
\* ===================================================================
\* The items of a table.
ItemsOf(f) == {f[i] : i \in 1..Len(f)}
\* The command of the last call, as the table knows it.
LastCommand == lower(tasks'["t1"].call.text)
\* The step is a record_interaction call with a command the full table does
\* not hold: an item has to go.
EvictionStep ==
    /\ calls' = calls + 1
    /\ tasks'["t1"].call.text # <<>>
    /\ Len(data.stats.frequent_commands) = MaxFrequent
    /\ \A x \in ItemsOf(data.stats.frequent_commands) : x.command # LastCommand
\* The items the bound is restored from, and those of them that are dropped.
CandidateItems ==
    ItemsOf(data.stats.frequent_commands) \cup {[command |-> LastCommand, count |-> 1]}
EvictedItems ==
    {e \in CandidateItems :
        \A x \in ItemsOf(data'.stats.frequent_commands) : x.command # e.command}

\* C31: after any sequence of record_interaction calls the table of frequent
\* commands holds at most MaxFrequent commands, each once; total_interactions
\* is the number of calls made since the last clear (or since the start),
\* with or without a command; the file holds the same numbers; and when an
\* item is dropped to restore the bound, the items kept are items of before
\* with their counts, MaxFrequent of them, and none has a lower count than a
\* dropped one.
C31_FrequentCommandsBounded ==
    /\ [](/\ Len(data.stats.frequent_commands) <= MaxFrequent
          /\ \A i, j \in 1..Len(data.stats.frequent_commands) :
                i # j => data.stats.frequent_commands[i].command
                            # data.stats.frequent_commands[j].command
          /\ data.stats.total_interactions = calls
          /\ calls > 0 => storage.data.stats = data.stats)
    /\ [][EvictionStep
            => /\ EvictedItems # {}
               /\ Len(data'.stats.frequent_commands) = MaxFrequent
               /\ ItemsOf(data'.stats.frequent_commands) \subseteq CandidateItems
               /\ \A r \in ItemsOf(data'.stats.frequent_commands), e \in EvictedItems :
                     r.count >= e.count]_vars

\* The table is full, its first command was used three times, and the
\* command of the last call, the twenty-first one, was dropped again.
C31_Witness ==
    /\ calls = MaxInteractions
    /\ data.stats.total_interactions = MaxInteractions
    /\ Len(data.stats.frequent_commands) = MaxFrequent
    /\ data.stats.frequent_commands[1] = [command |-> <<"a", "c01">>, count |-> 3]
    /\ tasks["t1"].call = [op |-> "record_interaction", text |-> <<"A", "c21">>]
    /\ \A x \in ItemsOf(data.stats.frequent_commands) : x.command # <<"a", "c21">>
====
